---- MODULE Spec2Model ----
(***************************************************************************)
(* Request dispatch and credential lifecycle of the HCP MCP server.        *)
(*                                                                         *)
(* The repository holds several drafts of the same layer.  A running       *)
(* process is one of them; `variant` says which:                           *)
(*   "mcp_server" : mcp_server.py + *_service.py + hcp_client.py (HCPClient,*)
(*                  blocking `requests` calls made from the endpoint)      *)
(*   "main"       : main.py + tools/*.py + *_client.py (HcpMcpServer)      *)
(*   "hcp"        : hcp/*.py coroutines using hcp/auth.py                  *)
(***************************************************************************)
EXTENDS Integers, Sequences, FiniteSets, TLC

\* ------------------------------------------------------------------ bounds
MaxTicks == 2          \* clock advances per behaviour
MaxExchanges == 2      \* authentication exchanges per behaviour
MaxPages == 3          \* page fetches of one list_statements call

\* ------------------------------------------------------- program constants
Margin == 60               \* hcp_client.py:50  "expires_in - 60"
DefaultExpiresIn == 3600   \* hcp_client.py:48  token_data.get("expires_in", 3600)

\* ------------------------------------------------------------- vocabulary
\* The requests that can be in flight at once.
Slots == {1, 2}
Variants == {"mcp_server", "main", "hcp", "hcp_auth"}
None == "None"
NoToken == 0               \* access_token is None / empty
NoTime == -1

\* The three module-level HCPClient() instances of the service modules.
Clients == {"iam", "rm", "vs"}
\* The one client HcpMcpServer.__init__ creates (main.py:124).
MainClient == "hcp_client"
AllClients == Clients \cup {MainClient}

\* Advances of time.time() between two steps of the program.
TickSteps == {30}
\* Values the token endpoint states in "expires_in".
ExpiresInValues == {120}

StrOrg == [t |-> "string", v |-> "org-1"]
IntTen == [t |-> "integer", v |-> "10"]
StrTen == [t |-> "string", v |-> "ten"]

NoParams == [x \in {} |-> StrOrg]
\* Argument dictionaries a caller sends.
ParamChoices ==
    { NoParams,
      [x \in {"id"} |-> StrOrg],
      [x \in {"page_size"} |-> IntTen],
      [x \in {"page_size"} |-> StrTen] }

\* The id a caller puts on the request it sends while k - 1 others are in flight.
RequestIds == [k \in Slots |-> IF k = 1 THEN "req-1" ELSE "req-2"]
NoId == "<absent>"
\* str(e): the message text of a raised exception.
ExceptionText == "str(e)"

VARIABLES
    variant,            \* which draft this process runs
    now,                \* time.time()
    ticks,              \* clock advances so far
    tools,              \* the tool registry: mcp_defs.MCP_TOOLS / HcpMcpServer._tools
    configured,         \* HCP_CLIENT_ID and HCP_CLIENT_SECRET are set
    hcp_api_logging,    \* HCP_API_LOGGING_ENABLED: the "hcp_api" logger writes INFO lines
    credsValid,         \* the token endpoint accepts the configured credentials
    authExchanges,      \* token requests sent so far; also names the token issued
    authFailed,         \* a token request got HTTP 401 and credentials were not corrected since
    access_token,       \* HCPClient.access_token, per instance
    token_expiry_time,  \* HCPClient.token_expiry_time, per instance
    cred,               \* per instance: when the cached token was fetched and the
                        \* expires_in its response stated (Absent: none)
    expiry_exchange,    \* per instance: the token request whose reply wrote
                        \* token_expiry_time (0: none did)
    current_token,      \* hcp_auth._current_token
    refreshing,         \* main.py's client: a token request is in flight
    context,            \* HcpMcpServer.current_context.resources
    calls               \* the requests being handled, per slot

constVars == << variant, configured, hcp_api_logging, tools >>
clockVars == << now, ticks >>
tokenVars == << access_token, token_expiry_time, cred, expiry_exchange >>
mainVars == << refreshing, context >>
vars == << constVars, current_token, clockVars, credsValid, authExchanges, authFailed,
           tokenVars, mainVars, calls >>

NoReply == [kind |-> None, status |-> 0, json |-> FALSE]
NoCred == [fetch |-> NoTime, ttl |-> NoTime, tok |-> NoToken]
NoResp == [id |-> NoId, success |-> FALSE, result |-> None, error |-> None,
           status_code |-> 0, details |-> None, resources |-> << >>]

IdleCall ==
    [ pc |-> "idle", id |-> NoId, tool |-> None, params |-> NoParams,
      client |-> None,
      exchanges |-> 0,         \* token requests this call sent
      requests |-> 0,          \* downstream API requests this call sent
      bearer |-> NoToken,      \* token in the last Authorization header
      sent |-> NoParams,       \* query parameters of the last downstream request
      checkedAt |-> NoTime,    \* time.time() read by _ensure_token
      credAtCheck |-> NoCred,  \* what was cached at that moment
      tokenAtCheck |-> NoToken,  \* self.access_token as _ensure_token read it
      expiryAtCheck |-> 0,     \* self.token_expiry_time as _ensure_token read it
      inWindow |-> FALSE,      \* started after a 401 that was not corrected since
      all_statements |-> << >>,  \* list_statements: the accumulated items
      fetched |-> << >>,       \* list_statements: the pages as they arrived
      cursor |-> None,         \* list_statements: params["pagination.next_page_token"]
      reply |-> NoReply,       \* the last reply of the platform API
      raised |-> None,         \* str(e) of an exception the tool handler raised
      listed |-> {},           \* the tool entries a listing returned
      logged |-> NoToken,      \* the bearer token a written log line shows verbatim
      resp |-> NoResp ]


\* ============================================================ environment
\* Replies of the token endpoint.  expires_in: a number, Absent or Null.
Absent == -1
Null == -2
AuthReply2xx ==
    [ kind : {"2xx"}, has_token : {TRUE},
      expires_in : ExpiresInValues \cup {Absent, Null} ]
    \cup [ kind : {"2xx"}, has_token : {FALSE}, expires_in : {Absent} ]
AuthReplyFail(kinds) == [ kind : kinds, has_token : {FALSE}, expires_in : {Absent} ]
AuthReplies(valid) ==
    IF valid
    THEN AuthReply2xx \cup AuthReplyFail({"http_5xx", "transport", "bad_json"})
    ELSE AuthReplyFail({"http_401", "transport"})

\* Replies of the downstream platform API.
\* json: the body parses as JSON.
ApiReplies ==
    [ kind : {"http"}, status : {200}, json : BOOLEAN ]
    \cup [ kind : {"http"}, status : {204}, json : {FALSE} ]
    \cup [ kind : {"http"}, status : {404, 500}, json : {TRUE} ]
    \cup [ kind : {"timeout", "connection", "other"}, status : {0}, json : {FALSE} ]

\* A finished call's response is written out before anything else happens.
NoneDone == \A j \in Slots : calls[j].pc # "done"

\* time.time() advances.
Tick ==
    /\ variant = "mcp_server"     \* the draft whose source reads the clock
    /\ NoneDone
    /\ ticks < MaxTicks
    /\ \E d \in TickSteps : now' = now + d
    /\ ticks' = ticks + 1
    /\ UNCHANGED << constVars, current_token, credsValid, authExchanges, authFailed,
                    tokenVars, mainVars, calls >>

\* The platform stops accepting the configured client id / secret.
RevokeCredentials ==
    /\ NoneDone
    /\ configured
    /\ credsValid
    /\ credsValid' = FALSE
    /\ UNCHANGED << constVars, current_token, clockVars, authExchanges, authFailed,
                    tokenVars, mainVars, calls >>

\* The operator corrects the credentials: the token endpoint accepts them again.
CorrectCredentials ==
    /\ NoneDone
    /\ configured
    /\ ~credsValid
    /\ credsValid' = TRUE
    /\ authFailed' = FALSE
    /\ calls' = [k \in Slots |-> [calls[k] EXCEPT !.inWindow = FALSE]]
    /\ UNCHANGED << constVars, current_token, clockVars, authExchanges, tokenVars,
                    mainVars >>

\* ============================================== mcp_defs.py / *_service.py
\* MCP_TOOLS after the service modules were imported: the handler's client
\* instance, its positional parameters without a default (required), its
\* parameters with a default (optional), and the types its input_schema states.
ToolNames ==
    { "resourcemanager_list_organizations",
      "resourcemanager_get_organization_by_id",
      "iam_get_caller_identity" }
SchemaTypes ==
    [ x \in {"id", "organization_id", "page_size", "next_page_token"} |->
        IF x = "page_size" THEN "integer" ELSE "string" ]
MCP_TOOLS ==
    [ n \in ToolNames |->
        CASE n = "resourcemanager_list_organizations" ->
               [ client |-> "rm", required |-> {},
                 optional |-> {"page_size", "next_page_token"} ]
          [] n = "resourcemanager_get_organization_by_id" ->
               [ client |-> "rm", required |-> {"id"}, optional |-> {} ]
          [] n = "iam_get_caller_identity" ->
               [ client |-> "iam", required |-> {}, optional |-> {} ] ]

\* The registry after MCP_TOOLS.get(name) / self._tools.get(name): a dict
\* that drops the entry it hands out.
RegistryAfterGet_Pop(reg, name) == [n \in DOMAIN reg \ {name} |-> reg[n]]
\* The registry after MCP_TOOLS.get(name) / self._tools.get(name).
RegistryAfterGet(reg, name) == reg

\* A listing that leaves out the tools without a required parameter.
ToolEntries_RequiredOnly(reg) ==
    { [ name |-> n, required |-> reg[n].required, optional |-> reg[n].optional ] :
        n \in {m \in DOMAIN reg : reg[m].required # {}} }
\* MCPTool.to_dict / create_tool_info_from_tool_instance for every registered
\* tool: its name and its parameters' schema (the description goes with the name).
ToolEntries(reg) ==
    { [ name |-> n, required |-> reg[n].required, optional |-> reg[n].optional ] :
        n \in DOMAIN reg }

\* Names a caller may put in tool_name.
RequestedNames == ToolNames \cup {"no_such_tool"}

\* tool.func(**request.parameters) raises TypeError: a positional parameter
\* without a default is missing, or a keyword is not a parameter at all.
\* Python checks no annotation: a value of the wrong type binds.
BindRaisesTypeError(name, params) ==
    LET t == MCP_TOOLS[name] IN
    \/ t.required \ DOMAIN params # {}
    \/ DOMAIN params \ (t.required \cup t.optional) # {}

\* Does some argument have a type other than the one the input schema states?
IllTyped(params) ==
    \E x \in DOMAIN params : x \in DOMAIN SchemaTypes /\ params[x].t # SchemaTypes[x]

\* The query parameters a service function puts on its request
\* ("pagination.page_size", "pagination.next_page_token").
QueryParams(params) ==
    [ x \in DOMAIN params \cap {"page_size", "next_page_token"} |-> params[x] ]

\* ========================================================== hcp_client.py
\* _ensure_token with the comparison ">" in place of ">=".
NeedsToken_Strict(tok, expiry, t) == tok = NoToken \/ t > expiry
\* An _ensure_token that looks at the token alone.
NeedsToken_NoExpiry(tok, expiry, t) == tok = NoToken
\* _ensure_token: "not self.access_token or time.time() >= self.token_expiry_time"
NeedsToken(tok, expiry, t) == tok = NoToken \/ t >= expiry

\* token_data.get("expires_in", 3600)
ExpiresIn(r) == IF r.expires_in = Absent THEN DefaultExpiresIn ELSE r.expires_in

\* time.time() + expires_in - 60
ExpiryTime(t, expires_in) == t + expires_in - Margin

\* _get_access_token after the token endpoint replied r at time t; n names the
\* token of this exchange.  tok/exp: the fields afterwards; ret: True, False,
\* or TypeError (expires_in is null: "time.time() + None").
GetAccessToken(tok, exp, r, n, t) ==
    IF r.kind # "2xx"
    THEN [ tok |-> tok, exp |-> exp, ret |-> "False" ]
    ELSE LET newTok == IF r.has_token THEN n ELSE NoToken IN
         IF r.expires_in = Null
         THEN [ tok |-> newTok, exp |-> exp, ret |-> "TypeError" ]
         ELSE [ tok |-> newTok, exp |-> ExpiryTime(t, ExpiresIn(r)),
                ret |-> IF newTok = NoToken THEN "False" ELSE "True" ]

\* _make_request, lines 99-136: the returned dictionary for a downstream reply.
ApiResult(error, status, data, details) ==
    [ error |-> error, status_code |-> status, data |-> data, details |-> details ]
MakeRequestResult(r) ==
    CASE r.kind = "timeout"    -> ApiResult("Request timed out", 408, None, "timeout")
      [] r.kind = "connection" -> ApiResult("Connection error", 503, None, "connection")
      [] r.kind = "other"      -> ApiResult("Request exception", 500, None, "exception")
      [] r.kind = "http" /\ r.status >= 400 ->
            ApiResult("HCP API request failed", r.status, None,
                      IF r.json THEN "json" ELSE "text")
      [] r.kind = "http" /\ r.status = 204 -> ApiResult(None, 204, "{}", None)
      [] r.kind = "http" /\ r.json -> ApiResult(None, r.status, "json", None)
      [] OTHER -> ApiResult("Failed to decode API JSON response", r.status, None,
                            "not json")

\* _make_request, line 90.
AuthFailedResult ==
    ApiResult("Authentication failed", 401, None, "no access token")

\* ========================================================== mcp_server.py
\* A service function's dictionary for api_response, passed through
\* ToolExecutionResponse(...) at lines 161-167.
EndpointResponse(api) ==
    IF api.error # None
    THEN [ id |-> NoId, success |-> FALSE, result |-> None, error |-> api.error,
           status_code |-> api.status_code, details |-> api.details,
           resources |-> << >> ]
    ELSE [ id |-> NoId, success |-> TRUE, result |-> api.data, error |-> None,
           status_code |-> api.status_code, details |-> None, resources |-> << >> ]

\* A dispatcher that answers an unknown tool name with an empty success.
ToolNotFoundResponse_Success ==
    [ id |-> NoId, success |-> TRUE, result |-> "{}", error |-> None,
      status_code |-> 200, details |-> None, resources |-> << >> ]
\* lines 131-135
ToolNotFoundResponse ==
    [ id |-> NoId, success |-> FALSE, result |-> None, error |-> "Tool not found",
      status_code |-> 404, details |-> None, resources |-> << >> ]
\* lines 168-176
InvalidParametersResponse ==
    [ id |-> NoId, success |-> FALSE, result |-> None, error |-> "Invalid parameters",
      status_code |-> 400, details |-> ExceptionText, resources |-> << >> ]


\* A session that sends the request a second time on its own.
SendApiRequest_Resend(c, tok) ==
    [ c EXCEPT !.pc = "api_wait", !.requests = c.requests + 2, !.bearer = tok,
               !.sent = QueryParams(c.params) ]
\* The downstream request _make_request sends for slot k's call (lines 92-100).
SendApiRequest(c, tok) ==
    [ c EXCEPT !.pc = "api_wait", !.requests = c.requests + 1, !.bearer = tok,
               !.sent = QueryParams(c.params) ]

Finish(c, resp) == [ c EXCEPT !.pc = "done", !.resp = resp ]

\* execute_tool_endpoint up to its first network wait.  The endpoint is a
\* coroutine that calls the blocking tool function directly, so no other
\* request is handled until it returns.
ExecuteToolEndpoint(k, id, name, params) ==
    /\ variant = "mcp_server"
    /\ NoneDone
    /\ calls[k].pc = "idle"
    /\ k = 1
    /\ LET c0 == [ IdleCall EXCEPT !.id = id, !.tool = name, !.params = params,
                                   !.inWindow = authFailed ] IN
       IF name \notin DOMAIN tools
       THEN /\ calls' = [calls EXCEPT ![k] = Finish(c0, ToolNotFoundResponse)]
            /\ UNCHANGED authExchanges
       ELSE IF BindRaisesTypeError(name, params)
       THEN /\ calls' = [calls EXCEPT ![k] = Finish(c0, InvalidParametersResponse)]
            /\ UNCHANGED authExchanges
       ELSE LET cl == MCP_TOOLS[name].client
                c1 == [ c0 EXCEPT !.client = cl, !.checkedAt = now,
                                  !.credAtCheck = cred[cl],
                                  !.tokenAtCheck = access_token[cl],
                                  !.expiryAtCheck = token_expiry_time[cl] ] IN
            IF NeedsToken(access_token[cl], token_expiry_time[cl], now)
            THEN IF ~configured
                 THEN /\ calls' = [calls EXCEPT ![k] =
                                     Finish(c1, EndpointResponse(AuthFailedResult))]
                      /\ UNCHANGED authExchanges
                 ELSE /\ authExchanges < MaxExchanges
                      /\ authExchanges' = authExchanges + 1
                      /\ calls' = [calls EXCEPT ![k] =
                                     [ c1 EXCEPT !.pc = "auth_wait", !.exchanges = 1 ]]
            ELSE /\ calls' = [calls EXCEPT ![k] = SendApiRequest(c1, access_token[cl])]
                 /\ UNCHANGED authExchanges
    /\ tools' = RegistryAfterGet(tools, name)
    /\ UNCHANGED << variant, configured, hcp_api_logging, current_token,
                    clockVars, credsValid, authFailed,
                    tokenVars, mainVars >>

\* list_tools_endpoint, lines 84-91.
ListToolsEndpoint(k) ==
    /\ variant = "mcp_server"
    /\ NoneDone
    /\ calls[k].pc = "idle"
    /\ k = 1
    /\ calls' = [calls EXCEPT ![k] =
         Finish([IdleCall EXCEPT !.tool = "list_tools", !.listed = ToolEntries(tools)],
                [NoResp EXCEPT !.success = TRUE, !.result = "tools"])]
    /\ UNCHANGED << constVars, current_token, clockVars, credsValid, authExchanges,
                    authFailed,
                    tokenVars, mainVars >>

\* The token endpoint replies to HCPClient._get_access_token (requests.post
\* returned or raised); the call goes on to its downstream request or returns.
ClientAuthReply(k, r) ==
    /\ variant = "mcp_server"
    /\ calls[k].pc = "auth_wait"
    /\ r \in AuthReplies(credsValid)
    /\ LET cl == calls[k].client
           g == GetAccessToken(access_token[cl], token_expiry_time[cl], r,
                               authExchanges, now) IN
       /\ access_token' = [access_token EXCEPT ![cl] = g.tok]
       /\ token_expiry_time' = [token_expiry_time EXCEPT ![cl] = g.exp]
       /\ cred' = [cred EXCEPT ![cl] =
                     IF r.kind # "2xx" THEN cred[cl]
                     ELSE IF g.ret = "True"
                          THEN [fetch |-> now, ttl |-> r.expires_in, tok |-> g.tok]
                          ELSE NoCred]
       /\ expiry_exchange' = [expiry_exchange EXCEPT ![cl] =
                                 IF r.kind = "2xx" /\ r.expires_in # Null
                                 THEN authExchanges ELSE expiry_exchange[cl]]
       /\ authFailed' = (authFailed \/ r.kind = "http_401")
       /\ calls' = [calls EXCEPT ![k] =
            CASE g.ret = "True" -> SendApiRequest(calls[k], g.tok)
              [] g.ret = "False" -> Finish(calls[k], EndpointResponse(AuthFailedResult))
              [] OTHER -> Finish([calls[k] EXCEPT !.raised = ExceptionText],
                                 InvalidParametersResponse)]
    /\ UNCHANGED << constVars, current_token, clockVars, credsValid, authExchanges,
                    mainVars >>

\* The platform API replies to session.request (or it raises); the service
\* function and the endpoint wrap the outcome.
ClientApiReply(k, r) ==
    /\ variant = "mcp_server"
    /\ calls[k].pc = "api_wait"
    /\ r \in ApiReplies
    /\ calls' = [calls EXCEPT ![k] =
                   Finish([calls[k] EXCEPT !.reply = r],
                          EndpointResponse(MakeRequestResult(r)))]
    /\ UNCHANGED << constVars, current_token, clockVars, credsValid, authExchanges,
                    authFailed,
                    tokenVars, mainVars >>

\* ================================================================ main.py
\* HcpMcpServer._tools (a part of it): each tool's ToolParameter list.
\* Every tool takes **kwargs, so binding the arguments never fails.
MainToolNames == {"hcp_list_organizations", "hcp_get_organization"}
MainTools ==
    [ n \in MainToolNames |->
        IF n = "hcp_get_organization"
        THEN [ required |-> {"organization_id"}, optional |-> {} ]
        ELSE [ required |-> {}, optional |-> {"page_size", "next_page_token"} ] ]
MainRequestedNames == MainToolNames \cup {"no_such_tool"}
MainParamChoices == { NoParams, [x \in {"organization_id"} |-> StrOrg] }

\* Resources a tool builds from the platform's reply: an id and the data.
Resources == [ id : {"org-1", "org-2"}, rev : {1, 2} ]
ResourceLists ==
    { << >>,
      << [id |-> "org-1", rev |-> 1] >>,
      << [id |-> "org-1", rev |-> 2] >>,
      << [id |-> "org-1", rev |-> 1], [id |-> "org-2", rev |-> 1] >>,
      << [id |-> "org-1", rev |-> 2], [id |-> "org-1", rev |-> 1] >> }

\* What the client methods hand a tool: (data, error), or data whose shape
\* makes from_api_response raise.
MainApiReplies ==
    [ kind : {"data"}, res : ResourceLists ]
    \cup [ kind : {"error", "no_data", "malformed"}, res : {<< >>} ]

\* ToolResult(tool_call_id, content_text, resources, error).  success is no
\* field of ToolResult: it stands for "error is None".
ToolResult(id, content, resources, error) ==
    [ id |-> id, success |-> error = None, result |-> content, error |-> error,
      status_code |-> 0, details |-> None, resources |-> resources ]

\* A credential is usable only while now < expires_at - safety_margin;
\* token_expiry_time holds expires_at - margin.
HcpUsable(tok, expiry, t) == tok # NoToken /\ t < expiry

\* lines 225-227: await tool(**call.params), up to the tool's network wait.
\* A tool returns "Error: ... is required." and no resources when a required
\* argument is missing or empty; otherwise it calls its client.
InvokeTool(c, tok) ==
    IF MainTools[c.tool].required \ DOMAIN c.params # {}
    THEN Finish(c, ToolResult(c.id, "Error: argument is required.", << >>, None))
    ELSE [ c EXCEPT !.pc = "api_wait", !.requests = c.requests + 1, !.bearer = tok,
                    !.sent = QueryParams(c.params) ]

\* execute_tool_call, lines 207-227, up to its first network wait.
ExecuteToolCall(k, id, name, params) ==
    /\ variant = "main"
    /\ configured                    \* main() builds no server otherwise
    /\ NoneDone
    /\ calls[k].pc = "idle"
    /\ LET c0 == [ IdleCall EXCEPT !.id = id, !.tool = name, !.params = params,
                                   !.client = MainClient, !.inWindow = authFailed ] IN
       IF name \notin DOMAIN tools
       THEN /\ calls' = [calls EXCEPT ![k] =
                 Finish(c0, ToolResult(id, "Tool not found.", << >>, "TOOL_NOT_FOUND"))]
            /\ UNCHANGED << authExchanges, refreshing >>
       ELSE IF HcpUsable(access_token[MainClient], token_expiry_time[MainClient], now)
       THEN /\ calls' = [calls EXCEPT ![k] = InvokeTool(c0, access_token[MainClient])]
            /\ UNCHANGED << authExchanges, refreshing >>
       ELSE IF refreshing
       THEN /\ calls' = [calls EXCEPT ![k] = [c0 EXCEPT !.pc = "auth_join"]]
            /\ UNCHANGED << authExchanges, refreshing >>
       ELSE /\ authExchanges < MaxExchanges
            /\ authExchanges' = authExchanges + 1
            /\ refreshing' = TRUE
            /\ calls' = [calls EXCEPT ![k] =
                           [c0 EXCEPT !.pc = "auth_wait", !.exchanges = 1]]
    /\ tools' = RegistryAfterGet(tools, name)
    /\ UNCHANGED << variant, configured, hcp_api_logging, current_token,
                    clockVars, credsValid, authFailed,
                    tokenVars, context >>

\* lines 246-252: content_text and Error.message both carry str(e).
ToolExecutionError(id) ==
    [ ToolResult(id, "An error occurred: " \o ExceptionText, << >>,
                 "TOOL_EXECUTION_ERROR") EXCEPT !.details = ExceptionText ]

AuthenticationErrorResult(c) ==
    Finish(c, ToolResult(c.id, "Failed to authenticate with HCP.", << >>,
                         "AUTHENTICATION_ERROR"))

\* ensure_authenticated: the token endpoint replied to the one refresh in
\* flight.  A reply without a token or without a numeric lifetime is a failure.
MainAuthReply(k, r) ==
    /\ variant = "main"
    /\ NoneDone
    /\ calls[k].pc = "auth_wait"
    /\ r \in AuthReplies(credsValid)
    /\ refreshing' = FALSE
    /\ authFailed' = (authFailed \/ r.kind = "http_401")
    /\ IF r.kind = "2xx" /\ r.has_token /\ r.expires_in # Null
       THEN /\ access_token' = [access_token EXCEPT ![MainClient] = authExchanges]
            /\ token_expiry_time' = [token_expiry_time EXCEPT ![MainClient] =
                                       ExpiryTime(now, ExpiresIn(r))]
            /\ expiry_exchange' = [expiry_exchange EXCEPT ![MainClient] = authExchanges]
            /\ UNCHANGED cred
            /\ calls' = [calls EXCEPT ![k] = InvokeTool(calls[k], authExchanges)]
       ELSE /\ calls' = [calls EXCEPT ![k] = AuthenticationErrorResult(calls[k])]
            /\ UNCHANGED tokenVars
    /\ UNCHANGED << constVars, current_token, clockVars, credsValid, authExchanges,
                    context >>

\* ensure_authenticated: a caller that found a refresh in flight shares its outcome.
MainAuthJoin(k) ==
    /\ variant = "main"
    /\ NoneDone
    /\ calls[k].pc = "auth_join"
    /\ ~refreshing
    /\ calls' = [calls EXCEPT ![k] =
         IF HcpUsable(access_token[MainClient], token_expiry_time[MainClient], now)
         THEN InvokeTool(calls[k], access_token[MainClient])
         ELSE AuthenticationErrorResult(calls[k])]
    /\ UNCHANGED << constVars, current_token, clockVars, credsValid, authExchanges,
                    authFailed,
                    tokenVars, mainVars >>

\* An execute_tool_call that puts each produced resource in the place of the
\* entries with its id.
AppendNew_Upsert(ctx, produced) ==
    SelectSeq(ctx, LAMBDA e : \A i \in 1..Len(produced) : produced[i].id # e.id)
        \o produced
\* An execute_tool_call that appends every produced resource.
AppendNew_All(ctx, produced) == ctx \o produced
\* lines 229-238: append the produced resources whose id is not in the context yet.
RECURSIVE AppendNew(_, _)
AppendNew(ctx, produced) ==
    IF produced = << >> THEN ctx
    ELSE LET res == Head(produced) IN
         AppendNew(IF \E i \in 1..Len(ctx) : ctx[i].id = res.id
                   THEN ctx ELSE Append(ctx, res),
                   Tail(produced))

\* execute_tool_call, lines 227-252, after the tool's client call returned.
MainApiReply(k, r) ==
    /\ variant = "main"
    /\ NoneDone
    /\ calls[k].pc = "api_wait"
    /\ r \in MainApiReplies
    /\ LET c == [calls[k] EXCEPT !.reply =
                    [kind |-> r.kind, status |-> 0, json |-> FALSE]] IN
       CASE r.kind = "malformed" ->
              /\ calls' = [calls EXCEPT ![k] =
                   Finish([c EXCEPT !.raised = ExceptionText],
                          ToolExecutionError(c.id))]
              /\ UNCHANGED context
         [] r.kind = "error" ->
              /\ calls' = [calls EXCEPT ![k] =
                   Finish(c, ToolResult(c.id, "Error from the client", << >>, None))]
              /\ UNCHANGED context
         [] r.kind = "no_data" ->
              /\ calls' = [calls EXCEPT ![k] =
                   Finish(c, ToolResult(c.id, "No data", << >>, None))]
              /\ UNCHANGED context
         [] OTHER ->
              /\ context' = AppendNew(context, r.res)
              /\ calls' = [calls EXCEPT ![k] =
                   Finish(c, ToolResult(c.id, "Success", r.res, None))]
    /\ UNCHANGED << constVars, current_token, clockVars, credsValid, authExchanges,
                    authFailed,
                    tokenVars, refreshing >>

\* get_context, lines 193-200: sets current_context.tool_infos from the
\* registry and returns current_context; nothing is awaited.
ContextResponse(ctx) ==
    [ NoResp EXCEPT !.success = TRUE, !.result = "Context", !.resources = ctx ]
GetContext(k) ==
    /\ variant = "main"
    /\ configured
    /\ NoneDone
    /\ calls[k].pc = "idle"
    /\ calls' = [calls EXCEPT ![k] =
                   Finish([IdleCall EXCEPT !.tool = "get_context",
                                           !.listed = ToolEntries(tools)],
                          ContextResponse(context))]
    /\ UNCHANGED << constVars, current_token, clockVars, credsValid, authExchanges,
                    authFailed,
                    tokenVars, mainVars >>

\* process_update, lines 263-276: ADD and MODIFY drop the entries with the
\* resource's id and append the resource; REMOVE drops the entries with the id.
UpdateTypes == {"ADD", "MODIFY", "REMOVE"}
WithoutId(ctx, id) == SelectSeq(ctx, LAMBDA res : res.id # id)
ApplyUpdate(ctx, update_type, res) ==
    IF update_type = "REMOVE"
    THEN WithoutId(ctx, res.id)
    ELSE Append(WithoutId(ctx, res.id), res)
ProcessUpdate(update_type, res) ==
    /\ variant = "main"
    /\ configured
    /\ NoneDone
    /\ context' = ApplyUpdate(context, update_type, res)
    /\ UNCHANGED << constVars, current_token, clockVars, credsValid, authExchanges,
                    authFailed,
                    tokenVars, refreshing, calls >>

\* ================================================================ hcp/*.py
\* The coroutines of hcp/: each awaits hcp.auth.get_access_token() and then
\* its httpx request(s).  A raised exception is the coroutine's outcome.
HcpHandlers == {"list_projects", "delete_project", "list_statements", "search_logs"}
StrDate == [t |-> "string", v |-> "2024-01-01"]
\* start_time/end_time of search_logs: a date, or text dateparser cannot parse.
HcpParamChoices(handler) ==
    IF handler = "search_logs"
    THEN { [x \in {"start_time"} |-> StrDate], [x \in {"start_time"} |-> StrTen] }
    ELSE { NoParams }

\* One page of the statements API: its items and pagination.next_page_token
\* (None: the key is absent).
Cursors == {None, "", "c1", "c2"}
Pages == [ items : {<< >>, <<"a">>, <<"a", "b">>}, next : Cursors ]

Raised(exc, status) ==
    [ id |-> NoId, success |-> FALSE, result |-> None, error |-> exc,
      status_code |-> status, details |-> None, resources |-> << >> ]
Returned(value) ==
    [ id |-> NoId, success |-> TRUE, result |-> value, error |-> None,
      status_code |-> 0, details |-> None, resources |-> << >> ]

\* The bearer token the "hcp_api" log shows after hcp_logger.info formatted
\* the request headers.  search_logs formats its own headers dict, value and
\* all (audit_logs.py line 40); the request hooks format httpx's
\* request.headers, whose repr prints '[secure]' for Authorization; the
\* handlers of resource_manager.py log the parsed response only.  Nothing is
\* written unless mcp_logging.setup_logging enabled the logger.
LoggedBearer(handler, tok) ==
    IF hcp_api_logging /\ handler = "search_logs" THEN tok ELSE NoToken

\* A coroutine of hcp/ is called: get_access_token posts to the token endpoint.
\* Page-fetch loops are explored one call at a time: list_statements shares
\* nothing with other calls.
HcpInvoke(k, handler, params) ==
    /\ variant = "hcp"
    /\ NoneDone
    /\ calls[k].pc = "idle"
    /\ \A j \in Slots \ {k} : calls[j].tool # "list_statements"
    /\ handler = "list_statements" => \A j \in Slots \ {k} : calls[j].pc = "idle"
    /\ authExchanges < MaxExchanges
    /\ authExchanges' = authExchanges + 1
    /\ calls' = [calls EXCEPT ![k] =
         [ IdleCall EXCEPT !.pc = "auth_wait", !.tool = handler, !.params = params,
                           !.exchanges = 1, !.inWindow = authFailed ]]
    /\ UNCHANGED << constVars, current_token, clockVars, credsValid, authFailed,
                    tokenVars, mainVars >>

\* hcp/auth.py lines 15-26 once the token endpoint replied, and the caller up
\* to its first request.
HcpAuthReply(k, r) ==
    /\ variant = "hcp"
    /\ NoneDone
    /\ calls[k].pc = "auth_wait"
    /\ r \in AuthReplies(credsValid)
    /\ authFailed' = (authFailed \/ r.kind = "http_401")
    /\ LET c == calls[k] IN
       calls' = [calls EXCEPT ![k] =
         CASE r.kind \in {"http_401", "http_5xx"} ->
                Finish(c, Raised("HTTPStatusError", IF r.kind = "http_401" THEN 401 ELSE 500))
           [] r.kind = "transport" -> Finish(c, Raised("RequestError", 0))
           [] r.kind = "bad_json" -> Finish(c, Raised("JSONDecodeError", 0))
           [] ~r.has_token -> Finish(c, Raised("KeyError", 0))
           [] c.tool = "search_logs" /\ c.params["start_time"] # StrDate ->
                Finish([c EXCEPT !.bearer = authExchanges,
                                 !.logged = LoggedBearer(c.tool, authExchanges)],
                       Raised("ValueError", 0))
           [] OTHER ->
                [ c EXCEPT !.pc = "api_wait", !.requests = 1,
                           !.bearer = authExchanges,
                           !.logged = LoggedBearer(c.tool, authExchanges) ]]
    /\ UNCHANGED << constVars, current_token, clockVars, credsValid, authExchanges,
                    tokenVars,
                    mainVars >>

\* resource_manager.py lines 16-20 (list_projects) and 42-46 (delete_project):
\* raise_for_status, then response.json().
ListProjectsOutcome(r) ==
    CASE r.kind = "timeout" -> Raised("TimeoutException", 0)
      [] r.kind \in {"connection", "other"} -> Raised("RequestError", 0)
      [] r.status >= 400 -> Raised("HTTPStatusError", r.status)
      [] ~r.json -> Raised("JSONDecodeError", 0)
      [] OTHER -> Returned("json")

\* audit_logs.py lines 83-103: raise_for_status is commented out; the body
\* is parsed and returned whatever the status.
SearchLogsOutcome(r) ==
    CASE r.kind = "timeout" -> Raised("TimeoutException", 0)
      [] r.kind \in {"connection", "other"} -> Raised("RequestError", 0)
      [] ~r.json -> Raised("JSONDecodeError", 0)
      [] OTHER -> Returned("json")

\* The platform API replied to list_projects, delete_project or search_logs.
HcpApiReply(k, r) ==
    /\ variant = "hcp"
    /\ NoneDone
    /\ calls[k].pc = "api_wait"
    /\ calls[k].tool \in {"list_projects", "delete_project", "search_logs"}
    /\ r \in ApiReplies
    /\ calls' = [calls EXCEPT ![k] =
         Finish([calls[k] EXCEPT !.reply = r],
                IF calls[k].tool = "search_logs"
                THEN SearchLogsOutcome(r) ELSE ListProjectsOutcome(r))]
    /\ UNCHANGED << constVars, current_token, clockVars, credsValid, authExchanges,
                    authFailed,
                    tokenVars, mainVars >>

\* The accumulation with items already seen left out.
AccumulatePage_Dedup(c, page) ==
    LET new == SelectSeq(page.items,
                         LAMBDA x : \A i \in 1..Len(c.all_statements) :
                                       c.all_statements[i] # x)
        acc == [ c EXCEPT !.all_statements = c.all_statements \o new,
                          !.fetched = Append(c.fetched, page) ] IN
    IF page.next \in {None, ""}
    THEN Finish(acc, Returned("list"))
    ELSE [ acc EXCEPT !.cursor = page.next, !.requests = c.requests + 1 ]
\* billing.py lines 37-47 for a page that arrived with status 200 and a JSON
\* body: extend, read the token, stop or set the parameter for the next get.
AccumulatePage(c, page) ==
    LET acc == [ c EXCEPT !.all_statements = c.all_statements \o page.items,
                          !.fetched = Append(c.fetched, page) ] IN
    IF page.next \in {None, ""}
    THEN Finish(acc, Returned("list"))
    ELSE [ acc EXCEPT !.cursor = page.next, !.requests = c.requests + 1 ]

\* The statements API replied to one client.get of the loop with a page.
HcpPageReply(k, page) ==
    /\ variant = "hcp"
    /\ NoneDone
    /\ calls[k].pc = "api_wait"
    /\ calls[k].tool = "list_statements"
    /\ page \in Pages
    /\ page.next \notin {None, ""} => calls[k].requests < MaxPages
    /\ calls' = [calls EXCEPT ![k] =
         AccumulatePage([calls[k] EXCEPT !.reply =
                            [kind |-> "http", status |-> 200, json |-> TRUE]], page)]
    /\ UNCHANGED << constVars, current_token, clockVars, credsValid, authExchanges,
                    authFailed,
                    tokenVars, mainVars >>

\* The loop of billing.py lines 32-47 beyond the pages the history fields
\* record: a page without items names another token, the loop puts it in the
\* parameters and gets again.  all_statements is extended by nothing; fetched
\* and requests keep the first MaxPages pages only.
HcpPageLoops(k, next) ==
    /\ variant = "hcp"
    /\ NoneDone
    /\ calls[k].pc = "api_wait"
    /\ calls[k].tool = "list_statements"
    /\ calls[k].requests = MaxPages
    /\ next \in Cursors \ {None, "", calls[k].cursor}
    /\ calls' = [calls EXCEPT ![k].cursor = next]
    /\ UNCHANGED << constVars, current_token, clockVars, credsValid, authExchanges,
                    authFailed,
                    tokenVars, mainVars >>

\* A client.get of the loop failed: raise_for_status or response.json() raises.
HcpPageFails(k, r) ==
    /\ variant = "hcp"
    /\ NoneDone
    /\ calls[k].pc = "api_wait"
    /\ calls[k].tool = "list_statements"
    /\ r \in ApiReplies
    /\ ListProjectsOutcome(r).error # None
    /\ calls' = [calls EXCEPT ![k] =
         Finish([calls[k] EXCEPT !.reply = r], ListProjectsOutcome(r))]
    /\ UNCHANGED << constVars, current_token, clockVars, credsValid, authExchanges,
                    authFailed,
                    tokenVars, mainVars >>

\* ============================================================ hcp_auth.py
\* What get_hcp_access_token returns: the token (held in the call's bearer
\* field), or None.
TokenReturned(c, tok) ==
    Finish([c EXCEPT !.bearer = tok],
           [NoResp EXCEPT !.success = (tok # NoToken),
                          !.result = IF tok # NoToken THEN "token" ELSE None])

\* get_hcp_access_token, lines 24-53: the test of the cache (lines 34-36) is
\* commented out; the credentials are read and the token request is posted.
GetHcpAccessToken(k) ==
    /\ variant = "hcp_auth"
    /\ NoneDone
    /\ calls[k].pc = "idle"
    /\ LET c0 == [ IdleCall EXCEPT !.tool = "get_hcp_access_token",
                                   !.credAtCheck = [NoCred EXCEPT !.tok = current_token],
                                   !.inWindow = authFailed ] IN
       IF ~configured
       THEN /\ calls' = [calls EXCEPT ![k] = TokenReturned(c0, NoToken)]
            /\ UNCHANGED authExchanges
       ELSE /\ authExchanges < MaxExchanges
            /\ authExchanges' = authExchanges + 1
            /\ calls' = [calls EXCEPT ![k] =
                           [c0 EXCEPT !.pc = "auth_wait", !.exchanges = 1]]
    /\ UNCHANGED << constVars, current_token, clockVars, credsValid, authFailed,
                    tokenVars, mainVars >>

\* lines 54-73 once the token endpoint replied: a 2xx body is parsed and
\* token_data.get("access_token") is stored and returned, None included; any
\* exception is logged and None is returned.
GetHcpAccessTokenReply(k, r) ==
    /\ variant = "hcp_auth"
    /\ NoneDone
    /\ calls[k].pc = "auth_wait"
    /\ r \in AuthReplies(credsValid)
    /\ authFailed' = (authFailed \/ r.kind = "http_401")
    /\ LET tok == IF r.kind # "2xx" THEN NoToken
                  ELSE IF r.has_token THEN authExchanges ELSE NoToken IN
       /\ current_token' = IF r.kind = "2xx" THEN tok ELSE current_token
       /\ calls' = [calls EXCEPT ![k] = TokenReturned(calls[k], tok)]
    /\ UNCHANGED << constVars, clockVars, credsValid, authExchanges, tokenVars,
                    mainVars >>

\* The response has been written to the caller; the slot is free again.
Deliver(k) ==
    /\ calls[k].pc = "done"
    /\ calls' = [calls EXCEPT ![k] = IdleCall]
    /\ UNCHANGED << constVars, current_token, clockVars, credsValid, authExchanges,
                    authFailed,
                    tokenVars, mainVars >>

\* ================================================================== system
\* The registry as the imports of mcp_server.py (lines 27-29) and
\* HcpMcpServer.__init__ (main.py:129) leave it; hcp/ has none.
Registry(v) ==
    CASE v = "mcp_server" -> MCP_TOOLS
      [] v = "main" -> MainTools
      [] OTHER -> [n \in {} |-> [required |-> {}, optional |-> {}]]

Init ==
    /\ variant \in Variants
    /\ tools = Registry(variant)
    /\ now = 0
    /\ ticks = 0
    /\ configured \in BOOLEAN
    /\ hcp_api_logging \in (IF variant = "hcp" THEN BOOLEAN ELSE {FALSE})
    /\ credsValid = configured
    /\ authExchanges = 0
    /\ authFailed = FALSE
    /\ access_token = [c \in AllClients |-> NoToken]
    /\ token_expiry_time = [c \in AllClients |-> 0]
    /\ cred = [c \in AllClients |-> NoCred]
    /\ expiry_exchange = [c \in AllClients |-> 0]
    /\ current_token = NoToken
    /\ refreshing = FALSE
    /\ context = << >>
    /\ calls = [k \in Slots |-> IdleCall]

Next ==
    \/ Tick
    \/ RevokeCredentials
    \/ CorrectCredentials
    \/ \E k \in Slots, name \in RequestedNames, params \in ParamChoices :
          ExecuteToolEndpoint(k, RequestIds[k], name, params)
    \/ \E k \in Slots, r \in AuthReply2xx \cup AuthReplyFail({"http_401", "http_5xx", "transport", "bad_json"}) :
          ClientAuthReply(k, r)
    \/ \E k \in Slots, r \in ApiReplies : ClientApiReply(k, r)
    \/ \E k \in Slots : ListToolsEndpoint(k)
    \/ \E k \in Slots, name \in MainRequestedNames, params \in MainParamChoices :
          ExecuteToolCall(k, RequestIds[k], name, params)
    \/ \E k \in Slots, r \in AuthReply2xx \cup AuthReplyFail({"http_401", "http_5xx", "transport", "bad_json"}) :
          MainAuthReply(k, r)
    \/ \E k \in Slots : MainAuthJoin(k)
    \/ \E k \in Slots, r \in MainApiReplies : MainApiReply(k, r)
    \/ \E k \in Slots : GetContext(k)
    \/ \E update_type \in UpdateTypes, res \in Resources :
          ProcessUpdate(update_type, res)
    \/ \E k \in Slots, h \in HcpHandlers :
          \E params \in HcpParamChoices(h) : HcpInvoke(k, h, params)
    \/ \E k \in Slots, r \in AuthReply2xx \cup AuthReplyFail({"http_401", "http_5xx", "transport", "bad_json"}) :
          HcpAuthReply(k, r)
    \/ \E k \in Slots, r \in ApiReplies : HcpApiReply(k, r)
    \/ \E k \in Slots, page \in Pages : HcpPageReply(k, page)
    \/ \E k \in Slots, r \in ApiReplies : HcpPageFails(k, r)
    \/ \E k \in Slots, next \in Cursors : HcpPageLoops(k, next)
    \/ \E k \in Slots : GetHcpAccessToken(k)
    \/ \E k \in Slots, r \in AuthReply2xx \cup AuthReplyFail({"http_401", "http_5xx", "transport", "bad_json"}) :
          GetHcpAccessTokenReply(k, r)
    \/ \E k \in Slots : Deliver(k)

Spec == Init /\ [][Next]_vars

\* A network wait of slot k's call ends: the token endpoint or the platform
\* API replies, or the timeout of the wait passes (requests: timeout=10 and
\* timeout=30, hcp_client.py lines 43 and 100; httpx: its default of 5 s),
\* which arrives as a reply of kind "transport" or "timeout".
WaitEnds(k) ==
    \/ \E r \in AuthReply2xx \cup AuthReplyFail({"http_401", "http_5xx", "transport", "bad_json"}) :
          \/ ClientAuthReply(k, r) \/ MainAuthReply(k, r) \/ HcpAuthReply(k, r)
          \/ GetHcpAccessTokenReply(k, r)
    \/ \E r \in ApiReplies :
          ClientApiReply(k, r) \/ HcpApiReply(k, r) \/ HcpPageFails(k, r)
    \/ \E r \in MainApiReplies : MainApiReply(k, r)
    \/ MainAuthJoin(k)
    \/ \E page \in Pages : HcpPageReply(k, page)
    \/ \E next \in Cursors : HcpPageLoops(k, next)

\* Every network wait ends whatever else the process handles meanwhile, and
\* a finished call's response is written out.
FairSpec ==
    Spec /\ \A k \in Slots : SF_vars(WaitEnds(k)) /\ WF_vars(Deliver(k))

\* ================================================================== claims
InFlight(k) == calls[k].pc \notin {"idle", "done"}
Done(k) == calls[k].pc = "done"

\* C1: two concurrent calls that both need a credential when none is cached
\* cause exactly one authentication exchange between them.
C1_SingleFlight ==
    \A j \in Slots, k \in Slots :
        (j # k /\ calls[j].pc \in {"auth_wait", "auth_join"}
               /\ calls[k].pc \in {"auth_wait", "auth_join"})
        => calls[j].exchanges + calls[k].exchanges = 1

\* C2: a credential fetched at fetch_time with stated lifetime T (3600 when
\* none is stated) is invalid from fetch_time + T - 60 on: a call that checks
\* before that point sends no token request and uses the cached token; a call
\* that checks at or after it sends exactly one token request and its
\* downstream request carries the token of that refresh.
C2_ExpiryWindow ==
    \A k \in Slots :
        LET c == calls[k]
            T == IF c.credAtCheck.ttl = Absent THEN 3600 ELSE c.credAtCheck.ttl
            invalidFrom == c.credAtCheck.fetch + T - 60 IN
        (c.client \in Clients /\ c.credAtCheck # NoCred) =>
            IF c.checkedAt < invalidFrom
            THEN /\ c.exchanges = 0
                 /\ c.requests = 1
                 /\ c.bearer = c.credAtCheck.tok
            ELSE /\ c.exchanges = 1
                 /\ c.requests <= 1
                 /\ c.requests = 1 =>
                      (c.bearer # NoToken /\ c.bearer # c.credAtCheck.tok)
C2_Witness ==
    \E k \in Slots :
        LET c == calls[k] IN
        /\ c.client \in Clients /\ c.credAtCheck # NoCred
        /\ c.credAtCheck.ttl = 120
        /\ c.checkedAt = c.credAtCheck.fetch + 60
        /\ c.exchanges = 1 /\ c.requests = 1 /\ c.pc = "api_wait"

\* C3: a call started after a token request got HTTP 401, and before the
\* credentials were corrected, ends as a failure without any downstream request.
C3_AuthWindow ==
    \A k \in Slots :
        (calls[k].inWindow /\ calls[k].pc # "idle")
        => (calls[k].requests = 0 /\ ~calls[k].resp.success)

\* C4: the response to a request carries the request's id, on every outcome.
C4_IdEchoed ==
    \A k \in Slots :
        (Done(k) /\ variant \in {"mcp_server", "main"})
        => calls[k].resp.id = calls[k].id

\* C5: a call naming a tool that is not registered ends with a not-found
\* error; it sends no token request and no downstream request.
NotFoundError(resp) ==
    /\ ~resp.success
    /\ resp.error \in {"Tool not found", "TOOL_NOT_FOUND"}
Unregistered(k) ==
    \/ variant = "mcp_server" /\ calls[k].tool \in RequestedNames \ ToolNames
    \/ variant = "main" /\ calls[k].tool \in MainRequestedNames \ MainToolNames
C5_UnknownTool ==
    \A k \in Slots :
        (calls[k].pc # "idle" /\ Unregistered(k))
        => /\ Done(k)
           /\ NotFoundError(calls[k].resp)
           /\ calls[k].exchanges = 0
           /\ calls[k].requests = 0
C5_Witness ==
    \E k \in Slots :
        /\ variant = "mcp_server"
        /\ Done(k)
        /\ calls[k].tool = "no_such_tool"
        /\ configured
        /\ \A c \in Clients : access_token[c] = NoToken

\* C6: a call of a registered tool that lacks a required argument ends with
\* an error result; it sends no token request and no downstream request.
MissingRequired(k) ==
    \/ /\ variant = "mcp_server" /\ calls[k].tool \in ToolNames
       /\ MCP_TOOLS[calls[k].tool].required \ DOMAIN calls[k].params # {}
    \/ /\ variant = "main" /\ calls[k].tool \in MainToolNames
       /\ MainTools[calls[k].tool].required \ DOMAIN calls[k].params # {}
C6_MissingRequiredRejected ==
    \A k \in Slots :
        (calls[k].pc # "idle" /\ MissingRequired(k))
        => /\ calls[k].exchanges = 0
           /\ calls[k].requests = 0
           /\ Done(k) => ~calls[k].resp.success

\* C7: a call with an argument whose type differs from the input schema's is
\* rejected as invalid parameters, and no downstream request carries the value.
C7_IllTypedRejected ==
    \A k \in Slots :
        (variant = "mcp_server" /\ calls[k].pc # "idle"
            /\ calls[k].tool \in ToolNames /\ IllTyped(calls[k].params))
        => /\ calls[k].requests = 0
           /\ ~IllTyped(calls[k].sent)
           /\ Done(k) => calls[k].resp.error = "Invalid parameters"

\* C8: list_statements holds the items of the fetched pages, concatenated in
\* the order the pages arrived and with nothing left out; it has sent one
\* request per page; it goes on exactly while the last page named a next
\* token, and returns at the first page that names none.
RECURSIVE Concat(_)
Concat(pages) ==
    IF pages = << >> THEN << >> ELSE Head(pages).items \o Concat(Tail(pages))
NamesNext(page) == page.next \notin {None, ""}
C8_Accumulation ==
    \A k \in Slots :
        LET c == calls[k] IN
        c.tool = "list_statements" =>
            /\ c.all_statements = Concat(c.fetched)
            /\ \A i \in 1..(Len(c.fetched) - 1) : NamesNext(c.fetched[i])
            /\ c.pc = "api_wait" =>
                 /\ c.requests = Len(c.fetched) + 1
                 /\ c.fetched # << >> => NamesNext(c.fetched[Len(c.fetched)])
            /\ (c.pc = "done" /\ c.resp.success) =>
                 /\ c.requests = Len(c.fetched)
                 /\ c.fetched # << >>
                 /\ ~NamesNext(c.fetched[Len(c.fetched)])
C8_Witness ==
    \E k \in Slots :
        /\ calls[k].tool = "list_statements"
        /\ Done(k) /\ calls[k].resp.success
        /\ calls[k].all_statements = <<"a", "b", "a", "b", "a">>
        /\ calls[k].requests = 3

\* C9: list_statements does not ask for another page after the API named the
\* same non-empty cursor on two consecutive pages.
C9_LoopGuard ==
    \A k \in Slots :
        LET c == calls[k] IN
        (c.tool = "list_statements" /\ c.pc = "api_wait") =>
            ~ \E i \in 1..(Len(c.fetched) - 1) :
                  /\ NamesNext(c.fetched[i])
                  /\ c.fetched[i].next = c.fetched[i + 1].next

\* C10: a downstream reply with a 4xx status reaches the caller as a failure
\* that carries that status.
C10_UpstreamStatus ==
    \A k \in Slots :
        LET c == calls[k] IN
        (Done(k) /\ c.reply.kind = "http" /\ c.reply.status \in 400..499)
        => (~c.resp.success /\ c.resp.status_code = c.reply.status)
\* C11: a downstream reply with a 2xx status is classified by status and
\* body: 204 is an empty success, another 2xx with a JSON body is a success,
\* a 2xx whose body is not JSON is a failure.
C11_Classification ==
    \A k \in Slots :
        LET c == calls[k] IN
        (Done(k) /\ c.reply.kind = "http" /\ c.reply.status \in 200..299) =>
            CASE c.reply.status = 204 -> c.resp.success /\ c.resp.error = None
              [] c.reply.json -> c.resp.success /\ c.resp.error = None
              [] OTHER -> ~c.resp.success /\ c.resp.error # None
\* C12: when the tool handler raised an exception, the caller receives a
\* generic internal error, and no field of the response holds the exception's
\* message text.
GenericInternalError(resp) ==
    /\ ~resp.success
    /\ resp.error \in {"An unexpected internal error occurred during tool execution.",
                       "TOOL_EXECUTION_ERROR"}
CarriesText(resp, text) ==
    \/ resp.details = text
    \/ resp.error = text
    \/ resp.result \in {text, "An error occurred: " \o text}
C12_HandlerException ==
    \A k \in Slots :
        (Done(k) /\ calls[k].raised # None) =>
            /\ GenericInternalError(calls[k].resp)
            /\ ~CarriesText(calls[k].resp, calls[k].raised)
\* C13: a response reports success exactly when it carries no error, and
\* an operation that failed (a required argument was missing, or the
\* downstream call ended in an error) is answered with an error.
FailedOperation(k) ==
    \/ MissingRequired(k)
    \/ calls[k].reply.kind \in {"error", "timeout", "connection", "other"}
    \/ calls[k].reply.kind = "http" /\ calls[k].reply.status >= 400
C13_ResultXorError ==
    \A k \in Slots :
        (Done(k) /\ variant \in {"mcp_server", "main"}) =>
            /\ calls[k].resp.success <=> calls[k].resp.error = None
            /\ FailedOperation(k) => calls[k].resp.error # None
\* C14: one credential is shared by all handlers: a call sends no token
\* request when any service's client holds a token that is usable at the
\* time of the call's check.
C14_SingleCredential ==
    \A k \in Slots :
        (variant = "mcp_server" /\ calls[k].pc = "auth_wait") =>
            ~ \E c \in Clients :
                  /\ access_token[c] # NoToken
                  /\ calls[k].checkedAt < token_expiry_time[c]
\* C15: in every state of every HCPClient the cached token and the cached
\* expiry time were written by the same token request, or neither was written.
C15_AtomicReplace ==
    \A c \in Clients : access_token[c] = expiry_exchange[c]
\* C16: nothing is retried: a call sends at most one token request and sends
\* each downstream request once (one per page for list_statements); a call
\* whose token request failed ends with the authentication error and no
\* downstream request.
C16_NoRetry ==
    \A k \in Slots :
        LET c == calls[k] IN
        /\ c.exchanges <= 1
        /\ IF c.tool = "list_statements"
           THEN c.requests <= Len(c.fetched) + 1
           ELSE c.requests <= 1
        /\ c.pc = "auth_wait" => (c.exchanges = 1 /\ c.requests = 0)
        /\ (variant = "mcp_server" /\ Done(k) /\ c.exchanges = 1
               /\ c.requests = 0 /\ c.raised = None)
           => (c.resp.error = "Authentication failed" /\ c.resp.status_code = 401)
C16_Witness ==
    \E k \in Slots :
        /\ variant = "mcp_server" /\ configured /\ Done(k)
        /\ calls[k].exchanges = 1 /\ calls[k].requests = 0
        /\ calls[k].resp.error = "Authentication failed"
        /\ authExchanges = 1
\* C17: without a configured client id and secret, a tool call fails without
\* any token request and without any downstream request.
C17_FailFastUnconfigured ==
    \A k \in Slots :
        (~configured /\ calls[k].pc # "idle") =>
            /\ calls[k].exchanges = 0
            /\ calls[k].requests = 0
            /\ Done(k) => ~calls[k].resp.success
\* C18: the dispatcher keeps no state across requests: what get_context
\* returns does not depend on the requests handled before it.
C18_NoCrossRequestState ==
    \A k \in Slots :
        (Done(k) /\ calls[k].tool = "get_context")
        => calls[k].resp.resources = << >>
\* C19: the tool registry stays as it was built at startup, whatever
\* requests are handled: the same names, each with the same schema and handler.
C19_RegistryFixed == tools = Registry(variant)
C19_Witness ==
    \/ \E k \in Slots :
          /\ variant = "main" /\ Done(k) /\ calls[k].tool = "get_context"
          /\ Len(context) = 2 /\ authExchanges > 0
    \/ /\ variant = "mcp_server" /\ Done(1) /\ calls[1].tool = "list_tools"
       /\ authExchanges = MaxExchanges

\* C20: no log or console line written while a request is handled shows a
\* credential verbatim: the bearer token sent on the request never appears in
\* a line of the trace.
C20_NoSecretInTrace ==
    \A k \in Slots : calls[k].bearer # NoToken => calls[k].logged # calls[k].bearer

\* C21: every accepted tool call eventually produces a response: no call
\* stays in flight forever.
C21_EveryCallAnswered == \A k \in Slots : InFlight(k) ~> Done(k)

\* A call that waits on the network.
Waiting(k) == calls[k].pc \in {"auth_wait", "auth_join", "api_wait"}
\* The server takes up an inbound request in slot j.
Accept(j) ==
    \/ ListToolsEndpoint(j)
    \/ \E name \in RequestedNames, params \in ParamChoices :
          ExecuteToolEndpoint(j, RequestIds[j], name, params)
    \/ \E name \in MainRequestedNames, params \in MainParamChoices :
          ExecuteToolCall(j, RequestIds[j], name, params)
    \/ GetContext(j)
    \/ \E h \in HcpHandlers : \E params \in HcpParamChoices(h) : HcpInvoke(j, h, params)
\* The bounds of the exploration leave room for another call beside k's.
RoomBeside(k) ==
    variant = "hcp" => (authExchanges < MaxExchanges /\ calls[k].tool # "list_statements")
\* C22: a call that waits on the network does not hold the thread that serves
\* requests: while it waits, another inbound request can be taken up.
C22_WaitDoesNotBlock ==
    \A k \in Slots, j \in Slots :
        (k # j /\ Waiting(k) /\ calls[j].pc = "idle" /\ RoomBeside(k))
        => ENABLED Accept(j)

\* C23: a listing holds exactly one entry per registered tool, with that
\* tool's name and parameter schema and no field of its handler; the listed
\* names are the names a tool call resolves.
C23_ListingComplete ==
    \A k \in Slots :
        (Done(k) /\ calls[k].tool \in {"list_tools", "get_context"}) =>
            LET listed == calls[k].listed IN
            /\ {e.name : e \in listed} = DOMAIN tools
            /\ Cardinality(listed) = Cardinality(DOMAIN tools)
            /\ \A e \in listed :
                  /\ DOMAIN e = {"name", "required", "optional"}
                  /\ e.required = tools[e.name].required
                  /\ e.optional = tools[e.name].optional
C23_Witness ==
    \/ /\ variant = "mcp_server" /\ Done(1) /\ calls[1].tool = "list_tools"
       /\ Cardinality(calls[1].listed) = 3
       /\ \E e \in calls[1].listed : e.required = {} /\ e.optional = {}
    \/ \E k \in Slots :
          /\ variant = "main" /\ Done(k) /\ calls[k].tool = "get_context"
          /\ Cardinality(calls[k].listed) = 2

\* C24: get_hcp_access_token performs an authentication exchange only if no
\* token is cached: a call made while a token is cached sends no token request.
C24_CachedTokenReused ==
    \A k \in Slots :
        (calls[k].tool = "get_hcp_access_token" /\ calls[k].credAtCheck.tok # NoToken)
        => calls[k].exchanges = 0

\* C25: HCPClient._make_request never raises: whatever the token endpoint
\* and the platform API reply, the call that went through it ends without an
\* exception having left it.
C25_MakeRequestNeverRaises ==
    \A k \in Slots :
        (variant = "mcp_server" /\ calls[k].client \in Clients)
        => calls[k].raised = None

\* C26: a downstream request of HCPClient carries a token that a successful
\* token request returned, never an empty one; at the _ensure_token check
\* before it the token was either fetched by this call or cached with
\* now < the stored expiry time.
C26_BearerUsable ==
    \A k \in Slots :
        LET c == calls[k] IN
        (c.client \in Clients /\ c.requests > 0) =>
            /\ c.bearer \in 1..authExchanges
            /\ \/ c.exchanges = 1 /\ c.bearer # c.tokenAtCheck
               \/ /\ c.exchanges = 0
                  /\ c.bearer = c.tokenAtCheck
                  /\ c.checkedAt < c.expiryAtCheck
C26_Witness ==
    \E k \in Slots :
        LET c == calls[k] IN
        /\ c.client \in Clients /\ c.pc = "api_wait" /\ c.requests = 1
        /\ c.exchanges = 0 /\ c.bearer = 1
        /\ c.checkedAt = c.expiryAtCheck - 30 /\ c.checkedAt > 0

\* C27: a token request that fails (transport error, non-2xx status,
\* undecodable body, 2xx body without access_token) leaves the token and the
\* expiry time that HCPClient had cached before it as they were.
C27_FailedExchangeKeepsCache ==
    \A k \in Slots :
        LET c == calls[k] IN
        (c.client \in Clients /\ Done(k) /\ c.exchanges = 1
           /\ c.tokenAtCheck # NoToken
           /\ c.resp.error = AuthFailedResult.error) =>
            /\ access_token[c.client] = c.tokenAtCheck
            /\ token_expiry_time[c.client] = c.expiryAtCheck

\* C28: no two resources of the current context have the same id, whatever
\* execute_tool_call and process_update did; an ADD or MODIFY leaves exactly
\* the given resource under its id, a REMOVE leaves no entry with the id.
UniqueIds(ctx) ==
    \A i \in 1..Len(ctx), j \in 1..Len(ctx) : i # j => ctx[i].id # ctx[j].id
WithId(ctx, id) == SelectSeq(ctx, LAMBDA res : res.id = id)
C28_ContextIdsUnique ==
    /\ [] UniqueIds(context)
    /\ [][ \A update_type \in UpdateTypes, res \in Resources :
             ProcessUpdate(update_type, res) =>
                 IF update_type = "REMOVE"
                 THEN WithId(context', res.id) = << >>
                 ELSE WithId(context', res.id) = << res >> ]_vars
C28_Witness ==
    \E k \in Slots :
        /\ variant = "main" /\ Done(k)
        /\ Len(calls[k].resp.resources) = 2
        /\ calls[k].resp.resources[1].id = calls[k].resp.resources[2].id
        /\ Len(context) = 2
        /\ context[1].id = "org-2"
        /\ context[2] = calls[k].resp.resources[1]

\* C29: the step in which execute_tool_call ends with an error result (tool
\* not found, authentication failure, exception of the tool) leaves the
\* context's resources as they were; the step in which it ends with success
\* leaves every entry the context had in its place, unaltered.
EndsCall(k) ==
    /\ variant = "main"
    /\ calls[k].pc # "done" /\ calls'[k].pc = "done"
    /\ calls'[k].tool \in MainRequestedNames
C29_ErrorLeavesContext ==
    [][ \A k \in Slots :
          EndsCall(k) =>
              IF calls'[k].resp.error # None
              THEN context' = context
              ELSE /\ Len(context') >= Len(context)
                   /\ \A i \in 1..Len(context) : context'[i] = context[i] ]_vars
C29_Witness ==
    \E k \in Slots :
        /\ variant = "main" /\ Done(k) /\ calls[k].resp.error = None
        /\ calls[k].resp.resources = << [id |-> "org-1", rev |-> 2] >>
        /\ context = << [id |-> "org-1", rev |-> 1] >>

\* C30: an 'Invalid parameters' (400) response of execute_tool_endpoint is
\* produced before the call sent any token request or downstream request.
C30_InvalidParamsBeforeNetwork ==
    \A k \in Slots :
        (variant = "mcp_server" /\ Done(k)
           /\ calls[k].resp.error = InvalidParametersResponse.error)
        => (calls[k].exchanges = 0 /\ calls[k].requests = 0)

====
